---- MODULE Spec2Model ----
(***************************************************************************)
(* A model of the tag-based filesystem crate `tbf`: the directory-backed   *)
(* backend (src/src/dfs.rs), the in-memory backend (src/src/imfs.rs), the  *)
(* tag patterns (src/src/pattern.rs) and the value types (src/src/lib.rs). *)
(*                                                                         *)
(* Strings (tag names, group names) are sequences of bytes, file names are *)
(* sequences of one-character strings, file contents are sequences of      *)
(* bytes.  The backing directory is a function from file names to          *)
(* contents.                                                               *)
(***************************************************************************)
EXTENDS Integers, Sequences, FiniteSets, TLC

VARIABLES
    backend,    \* which FileSystem implementation the instance is
    is_dir,     \* dfs: whether the backing path currently is a directory
    dir,        \* dfs: the backing directory, file name -> bytes
    cur_id,     \* dfs: SavedState.cur_id of the open instance
    files,      \* imfs: Vec<Box<[u8]>>
    tags_map,   \* imfs: BTreeMap<FileId, BTreeSet<Tag>>
    poisoned,   \* imfs: whether the `files` RwLock is poisoned
    std,        \* imfs: whether the crate is built with feature "std"
    ret,        \* what the last call returned
    issued,     \* history: the ids add_file returned Ok, in order
    fresh,      \* history: "new" from the opening of the instance to its first
                \* add_file that returns Ok, "first" from there to the second, then "later"
    expect,     \* history: id -> tag set, by the calls that returned Ok
    pc,         \* concurrent calls: each thread's position
    local,      \* concurrent calls: each thread's arguments and what it has read
    pat,        \* patterns: the TagPattern value at hand
    cands,      \* patterns: the candidate tags given to match_tags, in order
    matched,    \* patterns: what match_tags returned, None before the call
    raw,        \* FileId: the u64 at hand
    conv,       \* conversions: what the last conversion returned
    calls       \* concurrent imfs: the calls started so far

vars == <<backend, is_dir, dir, cur_id, files, tags_map, poisoned, std, ret,
          issued, fresh, expect, pc, local, pat, cands, matched, raw, conv, calls>>

---------------------------------------------------------------------------
(* Bounds of the model. *)

\* the ids one behaviour allocates: FirstFileId .. FirstFileId + MaxAdds - 1
MaxAdds == 2

\* the threads that call add_file concurrently
Threads == {"t1", "t2"}

\* the longest tag list: of a list pattern, of TagPredicate::and / or, and of
\* the candidates given to match_tags
MaxTags == 2

\* the deepest nesting of And / Or / Not in a TagPredicate
MaxDepth == 2

\* the largest u64 given to the FileId conversions
MaxRaw == 511

\* the calls the threads of one behaviour start on a shared InMemoryFs
MaxCalls == 4

---------------------------------------------------------------------------
(* Values: lib.rs *)

\* FileId: the first id that is not reserved (values 0-255 are special)
FirstFileId == 256

Group_Default == [custom |-> FALSE, name |-> <<>>]

Group_custom(group) == [custom |-> TRUE, name |-> group]

Tag_new(group, name) == [group |-> group, name |-> name]

Tag_named(name) == [group |-> Group_Default, name |-> name]

is_special(id) == id <= 255

is_file(id) == id > 255

\* FileId::from_u64_unchecked and FileId::into_u64_unchecked
from_u64_unchecked(id) == id

into_u64_unchecked(id) == id

\* Option<T>
None == [some |-> FALSE, v |-> <<>>]

Some(x) == [some |-> TRUE, v |-> x]

\* a checked conversion that lets 255 through
FileId_try_from_above_254(val) ==
    IF val <= 254 THEN None ELSE Some(from_u64_unchecked(val))

\* <FileId as TryFrom<u64>>::try_from
FileId_try_from(val) ==
    IF val <= 255 THEN None ELSE Some(from_u64_unchecked(val))

\* <u64 as TryFrom<FileId>>::try_from
u64_try_from(id) ==
    IF is_special(id) THEN None ELSE Some(into_u64_unchecked(id))

\* no conversion made yet
NoConv == [op |-> "none", res |-> None]

\* collect::<BTreeSet<Tag>>() of a sequence of tags
collect_set(tags) == {tags[i] : i \in DOMAIN tags}

\* derive(Ord) on String: byte-wise lexicographic order
RECURSIVE str_less(_, _)
str_less(a, b) ==
    IF b = <<>> THEN FALSE
    ELSE IF a = <<>> THEN TRUE
    ELSE IF Head(a) # Head(b) THEN Head(a) < Head(b)
    ELSE str_less(Tail(a), Tail(b))

\* derive(Ord) on Group: Default < Custom(_), Custom by its string
group_less(g, h) ==
    IF g.custom # h.custom THEN h.custom
    ELSE g.custom /\ str_less(g.name, h.name)

\* derive(Ord) on Tag: by group, then by name
tag_less(t, u) ==
    IF t.group # u.group THEN group_less(t.group, u.group)
    ELSE str_less(t.name, u.name)

\* iteration of a BTreeSet<Tag>: ascending
RECURSIVE btree_iter(_)
btree_iter(S) ==
    IF S = {} THEN <<>>
    ELSE LET m == CHOOSE x \in S : \A y \in S \ {x} : tag_less(x, y)
         IN  <<m>> \o btree_iter(S \ {m})

---------------------------------------------------------------------------
(* Inputs of the calls. *)

\* "a", "b", "g"
Str_a == <<97>>
Str_b == <<98>>
Str_g == <<103>>

\* the tags of tests/dfs.rs rw_file: Tag::named("a"), Tag::new(Group::custom("g"), "b")
TagA == Tag_named(Str_a)
TagGB == Tag_new(Group_custom(Str_g), Str_b)

Tags == {TagA, TagGB}

\* the arguments of add_file: those of tests/dfs.rs rw_file (shortened payload),
\* and an empty payload with a duplicated tag
AddArgs ==
    {[data |-> <<0, 1>>, tags |-> <<TagA, TagGB>>],
     [data |-> <<>>, tags |-> <<TagA, TagA>>]}

---------------------------------------------------------------------------
(* Integers and text as the code formats and parses them. *)

HexDigits == <<"0", "1", "2", "3", "4", "5", "6", "7",
               "8", "9", "A", "B", "C", "D", "E", "F">>

\* format!("{:0wX}", n): upper-case hex, zero-padded to width w
RECURSIVE format_hex(_, _)
format_hex(n, w) ==
    IF w = 0 THEN <<>>
    ELSE format_hex(n \div 16, w - 1) \o <<HexDigits[(n % 16) + 1]>>

\* n.to_le_bytes() of a k-byte unsigned integer
RECURSIVE to_le_bytes(_, _)
to_le_bytes(n, k) ==
    IF k = 0 THEN <<>>
    ELSE <<n % 256>> \o to_le_bytes(n \div 256, k - 1)

\* uN::from_le_bytes(bytes)
RECURSIVE from_le_bytes(_)
from_le_bytes(bytes) ==
    IF bytes = <<>> THEN 0
    ELSE Head(bytes) + 256 * from_le_bytes(Tail(bytes))

DecDigits == <<"0", "1", "2", "3", "4", "5", "6", "7", "8", "9">>

DecValue(c) == CHOOSE d \in 0..9 : DecDigits[d + 1] = c

IsDecDigit(c) == \E d \in 0..9 : DecDigits[d + 1] = c

RECURSIVE DecNumber(_)
DecNumber(s) ==
    IF s = <<>> THEN 0
    ELSE DecNumber(SubSeq(s, 1, Len(s) - 1)) * 10 + DecValue(s[Len(s)])

\* str::parse::<u64>(): decimal digits, an optional leading "+", not empty
parse_u64(s) ==
    LET digits == IF s # <<>> /\ Head(s) = "+" THEN Tail(s) ELSE s
    IN  IF digits # <<>> /\ \A i \in DOMAIN digits : IsDecDigit(digits[i])
        THEN Some(DecNumber(digits))
        ELSE None

\* str::split_once('.'): the parts before and after the first '.'
split_once(s) ==
    IF \E i \in DOMAIN s : s[i] = "."
    THEN LET k == CHOOSE i \in DOMAIN s :
                      s[i] = "." /\ \A j \in 1..(i - 1) : s[j] # "."
         IN  Some(<<SubSeq(s, 1, k - 1), SubSeq(s, k + 1, Len(s))>>)
    ELSE None

\* Path::file_stem of a file name: the part before the last '.', the whole
\* name when it has no '.' or only a leading one
file_stem(name) ==
    LET dots == {i \in DOMAIN name : name[i] = "."}
        last == IF dots = {} THEN 0 ELSE CHOOSE i \in dots : \A j \in dots : j <= i
    IN  IF last <= 1 THEN name ELSE SubSeq(name, 1, last - 1)

\* Path::with_extension(ext): the stem, then "." and ext when ext is not empty
with_extension(name, ext) ==
    IF ext = <<>> THEN file_stem(name)
    ELSE file_stem(name) \o <<".">> \o ext

\* the extension arguments the backend passes: ".dat" and ".tag"
ExtDat == <<".", "d", "a", "t">>
ExtTag == <<".", "t", "a", "g">>

\* the extension search_tags compares with: "tag"
SearchExt == <<"t", "a", "g">>

\* "tbf.dat"
TbfDat == <<"t", "b", "f", ".", "d", "a", "t">>

---------------------------------------------------------------------------
(* The tag codec of the directory backend: dfs.rs *)

\* what write_tags writes for one tag (the closure of try_for_each)
write_tag(tag) ==
    (IF tag.group.custom THEN <<1>> ELSE <<0>>)
    \o (IF tag.group.custom
        THEN <<1>> \o to_le_bytes(Len(tag.group.name), 4) \o tag.group.name
        ELSE <<0>>)
    \o to_le_bytes(Len(tag.name), 4)
    \o tag.name

\* the bytes write_tags leaves in the tag artifact
RECURSIVE write_tags_bytes(_)
write_tags_bytes(tags) ==
    IF tags = <<>> THEN <<>>
    ELSE write_tag(Head(tags)) \o write_tags_bytes(Tail(tags))

\* a failed read: the iterator is at the end of the stream
NoRead == [some |-> FALSE, v |-> <<>>, rest |-> <<>>]

\* TagIter::read_u32: four bytes, little-endian; None at the end of the stream
read_u32(bytes) ==
    IF Len(bytes) < 4 THEN NoRead
    ELSE [some |-> TRUE, v |-> from_le_bytes(SubSeq(bytes, 1, 4)),
          rest |-> SubSeq(bytes, 5, Len(bytes))]

\* the bytes of one UTF-8 scalar by its lead byte (0 for no lead byte)
Utf8Width(b) ==
    IF b < 128 THEN 1
    ELSE IF b >= 194 /\ b < 224 THEN 2
    ELSE IF b >= 224 /\ b < 240 THEN 3
    ELSE IF b >= 240 /\ b < 245 THEN 4
    ELSE 0

\* String::from_utf8(bytes).is_ok(), by lead and continuation bytes
RECURSIVE is_utf8(_)
is_utf8(bytes) ==
    IF bytes = <<>> THEN TRUE
    ELSE LET w == Utf8Width(Head(bytes))
         IN  /\ w > 0
             /\ Len(bytes) >= w
             /\ \A i \in 2..w : bytes[i] >= 128 /\ bytes[i] < 192
             /\ is_utf8(SubSeq(bytes, w + 1, Len(bytes)))

\* TagIter::read_string: a length, that many bytes, valid UTF-8
read_string(bytes) ==
    LET len == read_u32(bytes)
    IN  IF ~len.some THEN NoRead
        ELSE IF Len(len.rest) < len.v THEN NoRead
        ELSE IF ~is_utf8(SubSeq(len.rest, 1, len.v)) THEN NoRead
        ELSE [some |-> TRUE, v |-> SubSeq(len.rest, 1, len.v),
              rest |-> SubSeq(len.rest, len.v + 1, Len(len.rest))]

\* <TagIter as Iterator>::next
TagIter_next(bytes) ==
    IF bytes = <<>> THEN NoRead
    ELSE LET has_group == Head(bytes)
             group == IF has_group = 1 THEN read_string(Tail(bytes))
                      ELSE [some |-> TRUE, v |-> <<>>, rest |-> Tail(bytes)]
         IN  IF ~group.some THEN NoRead
             ELSE LET name == read_string(group.rest)
                  IN  IF ~name.some THEN NoRead
                      ELSE [some |-> TRUE,
                            v |-> Tag_new(IF has_group = 1 THEN Group_custom(group.v)
                                          ELSE Group_Default, name.v),
                            rest |-> name.rest]

\* the tags a TagIter over `bytes` yields until its first None
RECURSIVE TagIter_all(_)
TagIter_all(bytes) ==
    LET item == TagIter_next(bytes)
    IN  IF ~item.some THEN <<>>
        ELSE <<item.v>> \o TagIter_all(item.rest)

---------------------------------------------------------------------------
(* Tag patterns: pattern.rs *)

PatTag(tag) == [kind |-> "Tag", tag |-> tag]

\* a match that asks every candidate, not some candidate, to equal the tag
Tag_match_tags_all(self, tags) == \A i \in DOMAIN tags : tags[i] = self

\* <Tag as TagPattern>::match_tags
Tag_match_tags(self, tags) == \E i \in DOMAIN tags : tags[i] = self

\* a bare list or array of tags used as a pattern
PatList(tags) == [kind |-> "List", tags |-> tags]

\* a list match that asks for some listed tag, not every listed tag
Slice_match_tags_any(self, tags) ==
    \E k \in DOMAIN self : \E i \in DOMAIN tags : self[k] = tags[i]

\* <[Tag] as TagPattern>::match_tags, and [Tag; N] which forwards to it
Slice_match_tags(self, tags) ==
    \A k \in DOMAIN self : \E i \in DOMAIN tags : self[k] = tags[i]

\* enum TagPredicate: And and Or carry their list in preds, Not carries its
\* boxed predicate as the one element of preds, Group carries group, Name
\* carries name, Tag carries the group and the name of its tag
Pred_And(preds) ==
    [kind |-> "And", preds |-> preds, group |-> Group_Default, name |-> <<>>]

Pred_Or(preds) ==
    [kind |-> "Or", preds |-> preds, group |-> Group_Default, name |-> <<>>]

Pred_Not(pred) ==
    [kind |-> "Not", preds |-> <<pred>>, group |-> Group_Default, name |-> <<>>]

Pred_Group(group) ==
    [kind |-> "Group", preds |-> <<>>, group |-> group, name |-> <<>>]

Pred_Name(name) ==
    [kind |-> "Name", preds |-> <<>>, group |-> Group_Default, name |-> name]

Pred_Tag(tag) ==
    [kind |-> "Tag", preds |-> <<>>, group |-> tag.group, name |-> tag.name]

\* TagPredicate::and / TagPredicate::or on a list of tags (From<Tag>)
TagPredicate_and(tags) == Pred_And([i \in DOMAIN tags |-> Pred_Tag(tags[i])])

TagPredicate_or(tags) == Pred_Or([i \in DOMAIN tags |-> Pred_Tag(tags[i])])

\* an `all` that is false on an empty list
iter_all_nonempty(bools) == bools # <<>> /\ \A i \in DOMAIN bools : bools[i]

\* Iterator::all and Iterator::any over the results of a closure
iter_all(bools) == \A i \in DOMAIN bools : bools[i]

iter_any(bools) == \E i \in DOMAIN bools : bools[i]

\* a negation that returns what the inner predicate returned
Not_arm_same(inner) == inner

\* the Not arm: !pred.match_tags(iter)
Not_arm(inner) == ~inner

\* a name match that looks at the default group only
Name_arm_default_group(name, tags) ==
    \E i \in DOMAIN tags : tags[i].name = name /\ tags[i].group = Group_Default

\* the Group and Name arms
Group_arm(group, tags) == \E i \in DOMAIN tags : tags[i].group = group

Name_arm(name, tags) == \E i \in DOMAIN tags : tags[i].name = name

\* <TagPredicate as TagPattern>::match_tags
RECURSIVE TagPredicate_match_tags(_, _)
TagPredicate_match_tags(self, tags) ==
    CASE self.kind = "And" ->
             iter_all([i \in DOMAIN self.preds |->
                          TagPredicate_match_tags(self.preds[i], tags)])
      [] self.kind = "Or" ->
             iter_any([i \in DOMAIN self.preds |->
                          TagPredicate_match_tags(self.preds[i], tags)])
      [] self.kind = "Not" ->
             Not_arm(TagPredicate_match_tags(self.preds[1], tags))
      [] self.kind = "Group" -> Group_arm(self.group, tags)
      [] self.kind = "Name" -> Name_arm(self.name, tags)
      [] self.kind = "Tag" ->
             Tag_match_tags(Tag_new(self.group, self.name), tags)

\* a TagPredicate used as a pattern
PatPred(pred) == [kind |-> "Predicate", pred |-> pred]

\* match_tags of a pattern on the candidate tags, in iteration order
match_tags(pattern, tags) ==
    CASE pattern.kind = "Tag" -> Tag_match_tags(pattern.tag, tags)
      [] pattern.kind = "List" -> Slice_match_tags(pattern.tags, tags)
      [] pattern.kind = "Predicate" -> TagPredicate_match_tags(pattern.pred, tags)

\* the patterns given to search_tags
Patterns == {PatTag(t) : t \in Tags}

---------------------------------------------------------------------------
(* What a call returns. *)

Ret(op, ok, err, id, data, tags, ids) ==
    [op |-> op, ok |-> ok, err |-> err, id |-> id, data |-> data,
     tags |-> tags, ids |-> ids]

RetNone == Ret("none", TRUE, "", 0, <<>>, {}, <<>>)

\* Ok(()) and Ok(id)
RetOk(op, id) == Ret(op, TRUE, "", id, <<>>, {}, <<>>)

\* Err(err); err "panic" is a call that unwound
RetErr(op, err, id) == Ret(op, FALSE, err, id, <<>>, {}, <<>>)

\* Ok(FileInfo { id, data, tags })
RetInfo(op, id, data, tags) == Ret(op, TRUE, "", id, data, tags, <<>>)

\* Ok(Vec<FileId>)
RetIds(op, ids) == Ret(op, TRUE, "", 0, <<>>, {}, ids)

\* <dfs::Error as crate::error::Error>::generic_kind
generic_kind(err) ==
    CASE err = "FileNotFound" -> "FileNotFound"
      [] err = "IoError" -> "Source"
      [] err = "Poisoned" -> "State"
      [] OTHER -> "none"

---------------------------------------------------------------------------
(* The file system under the directory backend: std::fs on one directory. *)

NoFiles == [n \in {} |-> <<>>]

\* fs::write / OpenOptions write+create+truncate then write_all
fs_write(d, name, bytes) ==
    [n \in DOMAIN d \cup {name} |-> IF n = name THEN bytes ELSE d[n]]

\* fs::remove_file, its error for a missing file dropped
fs_remove(d, name) == [n \in DOMAIN d \ {name} |-> d[n]]

\* the listings fs::read_dir can give of a set of names: its order is the
\* operating system's
RECURSIVE read_dir_orders(_)
read_dir_orders(S) ==
    IF S = {} THEN {<<>>}
    ELSE UNION {{<<x>> \o rest : rest \in read_dir_orders(S \ {x})} : x \in S}

---------------------------------------------------------------------------
(* DirectoryBackedFs: dfs.rs *)

\* DirectoryBackedFs::file_name
file_name(id) == format_hex(id, 16)

\* self.file_name(id).with_extension(".dat")
dat_path(id) == with_extension(file_name(id), ExtDat)

\* self.file_name(id).with_extension(".tag")
tag_path(id) == with_extension(file_name(id), ExtTag)

\* an opening that does not read tbf.dat
SavedState_from_path_default(d) == Some(FirstFileId)

\* SavedState::from_path on tbf.dat of directory d
SavedState_from_path(d) ==
    IF TbfDat \in DOMAIN d
    THEN IF Len(d[TbfDat]) < 8 THEN None
         ELSE Some(from_le_bytes(SubSeq(d[TbfDat], 1, 8)))
    ELSE Some(FirstFileId)

\* a save that writes the counter before the allocation
SavedState_save_stale(d, id) == fs_write(d, TbfDat, to_le_bytes(id - 1, 8))

\* SavedState::save
SavedState_save(d, id) == fs_write(d, TbfDat, to_le_bytes(id, 8))

\* a check that passes whatever the path is
assert_dir_always(isdir) == TRUE

\* DirectoryBackedFs::assert_dir
assert_dir(isdir) == isdir

\* DirectoryBackedFs::write_tags
write_tags(d, id, tags) == fs_write(d, tag_path(id), write_tags_bytes(tags))

\* an allocation that leaves the counter as it is
next_cur_id_same(id) == id

\* add_file: the counter after the allocation of id
next_cur_id(id) == id + 1

\* add_file: the directory after a call that returns cur (no I/O failure)
dfs_add_file_dir(d, cur, data, tags) ==
    SavedState_save(write_tags(fs_write(d, dat_path(cur), data), cur, tags),
                    next_cur_id(cur))

\* edit_file: the directory after the call
dfs_edit_file_dir(d, id, data, tags) ==
    LET d1 == IF data.some THEN fs_write(d, dat_path(id), data.v) ELSE d
    IN  IF tags.some THEN write_tags(d1, id, tags.v) ELSE d1

\* a removal that leaves the tag artifact behind
dfs_remove_file_dir_data_only(d, id) == fs_remove(d, dat_path(id))

\* remove_file: the directory after the call
dfs_remove_file_dir(d, id) == fs_remove(fs_remove(d, dat_path(id)), tag_path(id))

\* get_info: what the call returns on directory d
dfs_get_info(d, isdir, id) ==
    IF ~assert_dir(isdir) THEN RetErr("get_info", "IoError", id)
    ELSE IF dat_path(id) \notin DOMAIN d THEN RetErr("get_info", "IoError", id)
    ELSE IF tag_path(id) \notin DOMAIN d THEN RetErr("get_info", "IoError", id)
    ELSE RetInfo("get_info", id, d[dat_path(id)],
                 collect_set(TagIter_all(d[tag_path(id)])))

\* search_tags: the directory entries the loop does not skip
search_entries(d) ==
    {n \in DOMAIN d :
        /\ split_once(n).some
        /\ split_once(n).v[2] = SearchExt
        /\ parse_u64(split_once(n).v[1]).some}

\* search_tags: the id parsed from an entry's name
search_id(n) == parse_u64(split_once(n).v[1]).v

\* search_tags: the results the call can return on directory d
dfs_search_tags(d, isdir, pattern) ==
    IF ~assert_dir(isdir) THEN {RetErr("search_tags", "IoError", 0)}
    ELSE IF \E n \in search_entries(d) : tag_path(search_id(n)) \notin DOMAIN d
         THEN {RetErr("search_tags", "IoError", 0)}
    ELSE LET hits == {n \in search_entries(d) :
                         match_tags(pattern, TagIter_all(d[tag_path(search_id(n))]))}
         IN  {RetIds("search_tags", [i \in DOMAIN order |-> search_id(order[i])]) :
                 order \in read_dir_orders(hits)}

---------------------------------------------------------------------------
(* History of the calls, kept to state the properties. *)

NoExpect == [i \in {} |-> [data |-> <<>>, tags |-> {}]]

ExpectPut(e, id, data, tags) ==
    [i \in DOMAIN e \cup {id} |->
        IF i = id THEN [data |-> data, tags |-> tags] ELSE e[i]]

ExpectDel(e, id) == [i \in DOMAIN e \ {id} |-> e[i]]

\* edit_file on a live id: the supplied parts replace the old ones
ExpectEdit(e, id, data, tags) ==
    IF id \notin DOMAIN e THEN e
    ELSE ExpectPut(e, id, IF data.some THEN data.v ELSE e[id].data,
                   IF tags.some THEN collect_set(tags.v) ELSE e[id].tags)

Issued == {issued[i] : i \in DOMAIN issued}

AfterAdd(f) == IF f = "new" THEN "first" ELSE "later"

\* the Option<&[u8]> and Option<I> arguments of edit_file: data alone, tags
\* alone, both
EditArgs ==
    {[data |-> Some(<<>>), tags |-> None],
     [data |-> None, tags |-> Some(<<TagGB>>)],
     [data |-> Some(<<0, 1>>), tags |-> Some(<<TagA, TagA>>)]}

---------------------------------------------------------------------------
(* DirectoryBackedFs, calls issued one after another. *)

\* the ids the calls are given: every id allocated, and the next one
DfsIds == Issued \cup {cur_id}

ImfsUnchanged == UNCHANGED <<files, tags_map, poisoned, std>>

ThreadsUnchanged == UNCHANGED <<pc, local>>

\* the values of the pattern and FileId calls, which no call of a backend touches
ValuesUnchanged == UNCHANGED <<pat, cands, matched, raw, conv, calls>>

\* a call that fails in assert_dir
DfsNotDir(op, id) ==
    /\ ~assert_dir(is_dir)
    /\ ret' = RetErr(op, "IoError", id)
    /\ UNCHANGED <<dir, cur_id, issued, fresh, expect>>

Dfs_add_file(data, tags) ==
    /\ backend = "dfs"
    /\ cur_id < FirstFileId + MaxAdds
    /\ \/ DfsNotDir("add_file", 0)
       \/ /\ assert_dir(is_dir)
          /\ dir' = dfs_add_file_dir(dir, cur_id, data, tags)
          /\ cur_id' = next_cur_id(cur_id)
          /\ ret' = RetOk("add_file", cur_id)
          /\ issued' = Append(issued, cur_id)
          /\ fresh' = AfterAdd(fresh)
          /\ expect' = ExpectPut(expect, cur_id, data, collect_set(tags))
    /\ UNCHANGED <<backend, is_dir>>
    /\ ImfsUnchanged /\ ThreadsUnchanged /\ ValuesUnchanged

Dfs_edit_file(id, data, tags) ==
    /\ backend = "dfs"
    /\ \/ DfsNotDir("edit_file", id)
       \/ /\ assert_dir(is_dir)
          /\ dir' = dfs_edit_file_dir(dir, id, data, tags)
          /\ ret' = RetOk("edit_file", id)
          /\ expect' = ExpectEdit(expect, id, data, tags)
          /\ UNCHANGED <<cur_id, issued, fresh>>
    /\ UNCHANGED <<backend, is_dir>>
    /\ ImfsUnchanged /\ ThreadsUnchanged /\ ValuesUnchanged

Dfs_remove_file(id) ==
    /\ backend = "dfs"
    /\ \/ DfsNotDir("remove_file", id)
       \/ /\ assert_dir(is_dir)
          /\ dir' = dfs_remove_file_dir(dir, id)
          /\ ret' = RetOk("remove_file", id)
          /\ expect' = ExpectDel(expect, id)
          /\ UNCHANGED <<cur_id, issued, fresh>>
    /\ UNCHANGED <<backend, is_dir>>
    /\ ImfsUnchanged /\ ThreadsUnchanged /\ ValuesUnchanged

Dfs_search_tags(pattern) ==
    /\ backend = "dfs"
    /\ ret' \in dfs_search_tags(dir, is_dir, pattern)
    /\ UNCHANGED <<backend, is_dir, dir, cur_id, issued, fresh, expect>>
    /\ ImfsUnchanged /\ ThreadsUnchanged /\ ValuesUnchanged

Dfs_get_info(id) ==
    /\ backend = "dfs"
    /\ ret' = dfs_get_info(dir, is_dir, id)
    /\ UNCHANGED <<backend, is_dir, dir, cur_id, issued, fresh, expect>>
    /\ ImfsUnchanged /\ ThreadsUnchanged /\ ValuesUnchanged

\* the instance is dropped and DirectoryBackedFs::new opens the directory again
Dfs_new ==
    /\ backend = "dfs"
    /\ is_dir
    /\ SavedState_from_path(dir).some
    /\ cur_id' = SavedState_from_path(dir).v
    /\ fresh' = "new"
    /\ ret' = RetOk("new", 0)
    /\ UNCHANGED <<backend, is_dir, dir, issued, expect>>
    /\ ImfsUnchanged /\ ThreadsUnchanged /\ ValuesUnchanged

---------------------------------------------------------------------------
(* InMemoryFs: imfs.rs *)

NoTags == [i \in {} |-> {}]

\* BTreeMap::insert
map_insert(m, id, v) == [i \in DOMAIN m \cup {id} |-> IF i = id THEN v ELSE m[i]]

\* BTreeMap::remove
map_remove(m, id) == [i \in DOMAIN m \ {id} |-> m[i]]

\* iteration of a BTreeMap<FileId, _>: the keys, ascending
RECURSIVE map_keys(_)
map_keys(S) ==
    IF S = {} THEN <<>>
    ELSE LET m == CHOOSE x \in S : \A y \in S : x <= y
         IN  <<m>> \o map_keys(S \ {m})

\* the subsequence of the ids whose tags match
RECURSIVE filter_ids(_, _, _)
filter_ids(ids, m, pattern) ==
    IF ids = <<>> THEN <<>>
    ELSE (IF match_tags(pattern, btree_iter(m[Head(ids)])) THEN <<Head(ids)>> ELSE <<>>)
         \o filter_ids(Tail(ids), m, pattern)

\* add_file: FileId(files.len() as u64 + 255), files.len() after the push
imfs_new_id(len) == len + 255

\* (id.0 - 255) as usize, as an index of the sequence `files` (first index 1)
imfs_index(id) == (id - 255) + 1

\* read_files()? / write_files()?: Err(Poisoned) on a poisoned lock (std only)
files_lock_fails(isstd, p) == isstd /\ p

\* InMemoryFs::assert_file_exists
assert_file_exists(m, id) == id \in DOMAIN m

\* search_tags: what the call returns
imfs_search_tags(m, pattern) ==
    RetIds("search_tags", filter_ids(map_keys(DOMAIN m), m, pattern))

\* get_info: what the call returns
imfs_get_info(f, m, isstd, p, id) ==
    IF ~assert_file_exists(m, id) THEN RetErr("get_info", "FileNotFound", id)
    ELSE IF files_lock_fails(isstd, p) THEN RetErr("get_info", "Poisoned", id)
    ELSE IF imfs_index(id) > Len(f) THEN RetErr("get_info", "panic", id)
    ELSE RetInfo("get_info", id, f[imfs_index(id)], m[id])

\* the ids the calls are given: every id allocated, and the next one
ImfsIds == Issued \cup {imfs_new_id(Len(files) + 1)}

DfsUnchanged == UNCHANGED <<is_dir, dir, cur_id>>

Imfs_add_file(data, tags) ==
    /\ backend = "imfs"
    /\ Len(files) < MaxAdds
    /\ IF files_lock_fails(std, poisoned)
       THEN /\ ret' = RetErr("add_file", "Poisoned", 0)
            /\ UNCHANGED <<files, tags_map, issued, fresh, expect>>
       ELSE LET new_id == imfs_new_id(Len(files) + 1)
            IN  /\ files' = Append(files, data)
                /\ tags_map' = map_insert(tags_map, new_id, collect_set(tags))
                /\ ret' = RetOk("add_file", new_id)
                /\ issued' = Append(issued, new_id)
                /\ fresh' = AfterAdd(fresh)
                /\ expect' = ExpectPut(expect, new_id, data, collect_set(tags))
    /\ UNCHANGED <<backend, poisoned, std>>
    /\ DfsUnchanged /\ ThreadsUnchanged /\ ValuesUnchanged

Imfs_edit_file(id, data, tags) ==
    /\ backend = "imfs"
    /\ IF ~assert_file_exists(tags_map, id)
       THEN /\ ret' = RetErr("edit_file", "FileNotFound", id)
            /\ UNCHANGED <<files, tags_map, poisoned, expect>>
       ELSE IF data.some /\ files_lock_fails(std, poisoned)
       THEN /\ ret' = RetErr("edit_file", "Poisoned", id)
            /\ UNCHANGED <<files, tags_map, poisoned, expect>>
       ELSE IF data.some /\ imfs_index(id) > Len(files)
       THEN \* the index panics with the write guard of `files` held
            /\ ret' = RetErr("edit_file", "panic", id)
            /\ poisoned' = std
            /\ UNCHANGED <<files, tags_map, expect>>
       ELSE /\ files' = IF data.some THEN [files EXCEPT ![imfs_index(id)] = data.v]
                        ELSE files
            /\ tags_map' = IF tags.some
                           THEN map_insert(tags_map, id, collect_set(tags.v))
                           ELSE tags_map
            /\ ret' = RetOk("edit_file", id)
            /\ expect' = ExpectEdit(expect, id, data, tags)
            /\ UNCHANGED poisoned
    /\ UNCHANGED <<backend, std, issued, fresh>>
    /\ DfsUnchanged /\ ThreadsUnchanged /\ ValuesUnchanged

Imfs_remove_file(id) ==
    /\ backend = "imfs"
    /\ IF ~assert_file_exists(tags_map, id)
       THEN /\ ret' = RetErr("remove_file", "FileNotFound", id)
            /\ UNCHANGED <<files, tags_map, poisoned, expect>>
       ELSE IF files_lock_fails(std, poisoned)
       THEN /\ ret' = RetErr("remove_file", "Poisoned", id)
            /\ UNCHANGED <<files, tags_map, poisoned, expect>>
       ELSE IF imfs_index(id) > Len(files)
       THEN \* the index panics with the write guard of `files` held
            /\ ret' = RetErr("remove_file", "panic", id)
            /\ poisoned' = std
            /\ UNCHANGED <<files, tags_map, expect>>
       ELSE /\ files' = [files EXCEPT ![imfs_index(id)] = <<>>]
            /\ tags_map' = map_remove(tags_map, id)
            /\ ret' = RetOk("remove_file", id)
            /\ expect' = ExpectDel(expect, id)
            /\ UNCHANGED poisoned
    /\ UNCHANGED <<backend, std, issued, fresh>>
    /\ DfsUnchanged /\ ThreadsUnchanged /\ ValuesUnchanged

Imfs_search_tags(pattern) ==
    /\ backend = "imfs"
    /\ ret' = imfs_search_tags(tags_map, pattern)
    /\ UNCHANGED <<backend, files, tags_map, poisoned, std, issued, fresh, expect>>
    /\ DfsUnchanged /\ ThreadsUnchanged /\ ValuesUnchanged

Imfs_get_info(id) ==
    /\ backend = "imfs"
    /\ ret' = imfs_get_info(files, tags_map, std, poisoned, id)
    /\ UNCHANGED <<backend, files, tags_map, poisoned, std, issued, fresh, expect>>
    /\ DfsUnchanged /\ ThreadsUnchanged /\ ValuesUnchanged

---------------------------------------------------------------------------
(* The store with its calls issued one after another. *)

\* the directory an instance is first opened on: an empty one
OpenedOn == {NoFiles}

Idle == [t \in Threads |-> "idle"]

NoLocal == [t \in Threads |-> [id |-> 0, data |-> <<>>, tags |-> <<>>]]

Init ==
    /\ backend \in {"dfs", "imfs"}
    /\ is_dir = TRUE
    /\ dir \in (IF backend = "dfs" THEN OpenedOn ELSE {NoFiles})
    /\ cur_id = SavedState_from_path(dir).v
    /\ files = <<>>
    /\ tags_map = NoTags
    /\ poisoned = FALSE
    /\ std \in (IF backend = "imfs" THEN BOOLEAN ELSE {TRUE})
    /\ ret = RetNone
    /\ issued = <<>>
    /\ fresh = "new"
    /\ expect = NoExpect
    /\ pc = Idle
    /\ local = NoLocal
    /\ calls = 0
    /\ pat = PatList(<<>>)
    /\ cands = <<>>
    /\ matched = None
    /\ raw = 0
    /\ conv = NoConv

Next ==
    \/ \E a \in AddArgs : Dfs_add_file(a.data, a.tags)
    \/ \E id \in DfsIds, a \in EditArgs : Dfs_edit_file(id, a.data, a.tags)
    \/ \E id \in DfsIds : Dfs_remove_file(id)
    \/ \E pattern \in Patterns : Dfs_search_tags(pattern)
    \/ \E id \in DfsIds : Dfs_get_info(id)
    \/ Dfs_new
    \/ \E a \in AddArgs : Imfs_add_file(a.data, a.tags)
    \/ \E id \in ImfsIds, a \in EditArgs : Imfs_edit_file(id, a.data, a.tags)
    \/ \E id \in ImfsIds : Imfs_remove_file(id)
    \/ \E pattern \in Patterns : Imfs_search_tags(pattern)
    \/ \E id \in ImfsIds : Imfs_get_info(id)

Spec == Init /\ [][Next]_vars

---------------------------------------------------------------------------
(* The calls that change the store, and the reopening of the directory. *)

NextWrites ==
    \/ \E a \in AddArgs : Dfs_add_file(a.data, a.tags)
    \/ \E id \in DfsIds, a \in EditArgs : Dfs_edit_file(id, a.data, a.tags)
    \/ \E id \in DfsIds : Dfs_remove_file(id)
    \/ Dfs_new
    \/ \E a \in AddArgs : Imfs_add_file(a.data, a.tags)
    \/ \E id \in ImfsIds, a \in EditArgs : Imfs_edit_file(id, a.data, a.tags)
    \/ \E id \in ImfsIds : Imfs_remove_file(id)

SpecWrites == Init /\ [][NextWrites]_vars

---------------------------------------------------------------------------
(* InMemoryFs alone. *)

InitImfs == Init /\ backend = "imfs"

NextImfs ==
    \/ \E a \in AddArgs : Imfs_add_file(a.data, a.tags)
    \/ \E id \in ImfsIds, a \in EditArgs : Imfs_edit_file(id, a.data, a.tags)
    \/ \E id \in ImfsIds : Imfs_remove_file(id)
    \/ \E pattern \in Patterns : Imfs_search_tags(pattern)
    \/ \E id \in ImfsIds : Imfs_get_info(id)

SpecImfs == InitImfs /\ [][NextImfs]_vars

---------------------------------------------------------------------------
(* DirectoryBackedFs::add_file called from several threads, statement by   *)
(* statement, and the process stopping at any point.  The guards of        *)
(* state.read() and state.write() live to the end of their statement: the  *)
(* read of cur_id and the increment are one step each, and the read guard  *)
(* of `self.state.read()?.save(..)` is held while tbf.dat is opened        *)
(* (truncated) and written.                                                *)

InitConc == Init /\ backend = "dfs"

SeqUnchanged == UNCHANGED <<backend, is_dir, expect>>

\* a thread holds the read guard of `state` (inside save)
holds_read(t) == pc[t] = "save_write"

\* lines 216-217: assert_dir, then read cur_id
add_file_read_id(t, data, tags) ==
    /\ backend = "dfs"
    /\ pc[t] = "idle"
    /\ cur_id < FirstFileId + MaxAdds
    /\ IF ~assert_dir(is_dir)
       THEN /\ ret' = RetErr("add_file", "IoError", 0)
            /\ UNCHANGED <<pc, local>>
       ELSE /\ pc' = [pc EXCEPT ![t] = "write_data"]
            /\ local' = [local EXCEPT ![t] = [id |-> cur_id, data |-> data, tags |-> tags]]
            /\ UNCHANGED ret
    /\ UNCHANGED <<dir, cur_id, issued, fresh>>
    /\ SeqUnchanged /\ ImfsUnchanged /\ ValuesUnchanged

\* line 218: fs::write of the data artifact
add_file_write_data(t) ==
    /\ pc[t] = "write_data"
    /\ dir' = fs_write(dir, dat_path(local[t].id), local[t].data)
    /\ pc' = [pc EXCEPT ![t] = "write_tags"]
    /\ UNCHANGED <<cur_id, local, ret, issued, fresh>>
    /\ SeqUnchanged /\ ImfsUnchanged /\ ValuesUnchanged

\* line 219: write_tags
add_file_write_tags(t) ==
    /\ pc[t] = "write_tags"
    /\ dir' = write_tags(dir, local[t].id, local[t].tags)
    /\ pc' = [pc EXCEPT ![t] = "increment"]
    /\ UNCHANGED <<cur_id, local, ret, issued, fresh>>
    /\ SeqUnchanged /\ ImfsUnchanged /\ ValuesUnchanged

\* line 220: self.state.write()?.cur_id += 1, once no thread holds a read guard
add_file_increment(t) ==
    /\ pc[t] = "increment"
    /\ \A u \in Threads : ~holds_read(u)
    /\ cur_id' = next_cur_id(cur_id)
    /\ pc' = [pc EXCEPT ![t] = "save"]
    /\ UNCHANGED <<dir, local, ret, issued, fresh>>
    /\ SeqUnchanged /\ ImfsUnchanged /\ ValuesUnchanged

\* line 221, save lines 71-75: the read guard is taken, tbf.dat is opened and truncated
add_file_save_open(t) ==
    /\ pc[t] = "save"
    /\ dir' = fs_write(dir, TbfDat, <<>>)
    /\ pc' = [pc EXCEPT ![t] = "save_write"]
    /\ UNCHANGED <<cur_id, local, ret, issued, fresh>>
    /\ SeqUnchanged /\ ImfsUnchanged /\ ValuesUnchanged

\* save line 76 and line 222: the counter is written, the call returns Ok(cur_id)
add_file_save_write(t) ==
    /\ pc[t] = "save_write"
    /\ dir' = SavedState_save(dir, cur_id)
    /\ pc' = [pc EXCEPT ![t] = "idle"]
    /\ ret' = RetOk("add_file", local[t].id)
    /\ issued' = Append(issued, local[t].id)
    /\ fresh' = AfterAdd(fresh)
    /\ local' = [local EXCEPT ![t] = NoLocal[t]]
    /\ UNCHANGED cur_id
    /\ SeqUnchanged /\ ImfsUnchanged /\ ValuesUnchanged

\* the process stops; DirectoryBackedFs::new opens the directory again, and
\* fails when tbf.dat is shorter than 8 bytes
Crash ==
    /\ backend = "dfs"
    /\ \E t \in Threads : pc[t] # "idle"
    /\ pc' = Idle
    /\ local' = NoLocal
    /\ issued' = <<>>
    /\ fresh' = "new"
    /\ IF SavedState_from_path(dir).some
       THEN /\ cur_id' = SavedState_from_path(dir).v
            /\ ret' = RetOk("new", 0)
            /\ backend' = "dfs"
       ELSE /\ cur_id' = 0
            /\ ret' = RetErr("new", "IoError", 0)
            /\ backend' = "closed"
    /\ UNCHANGED <<is_dir, dir, expect>>
    /\ ImfsUnchanged /\ ValuesUnchanged

NextConc ==
    \/ \E t \in Threads, a \in AddArgs : add_file_read_id(t, a.data, a.tags)
    \/ \E t \in Threads : add_file_write_data(t)
    \/ \E t \in Threads : add_file_write_tags(t)
    \/ \E t \in Threads : add_file_increment(t)
    \/ \E t \in Threads : add_file_save_open(t)
    \/ \E t \in Threads : add_file_save_write(t)
    \/ Crash

SpecConc == InitConc /\ [][NextConc]_vars

---------------------------------------------------------------------------
(* Tag patterns on their own: a pattern is built with TagPredicate::not,   *)
(* TagPredicate::and and TagPredicate::or, and match_tags is called on it. *)

\* the sequences over S of length at most n
Lists(S, n) == UNION {[1..k -> S] : k \in 0..n}

TagGA == Tag_new(Group_custom(Str_g), Str_a)

\* the tags of the patterns and of the candidates
PatternTags == {TagA, TagGB, TagGA}

\* the candidate tags given to match_tags: any order, duplicates allowed
Candidates == Lists(PatternTags, MaxTags)

\* the predicates without sub-predicates
Leaves ==
    {Pred_Group(Group_Default), Pred_Group(Group_custom(Str_g)),
     Pred_Name(Str_a), Pred_Name(Str_b), Pred_Tag(TagA), Pred_Tag(TagGB)}

\* the predicates a predicate is combined with
Operands == {Pred_Name(Str_a), Pred_Tag(TagGB)}

\* the patterns to start from: a bare tag, a tag list, a leaf predicate,
\* TagPredicate::and and TagPredicate::or of a tag list (the empty one included)
InitPatterns ==
    {PatTag(t) : t \in PatternTags}
        \cup {PatList(l) : l \in Lists(PatternTags, MaxTags)}
        \cup {PatPred(p) : p \in Leaves}
        \cup {PatPred(TagPredicate_and(l)) : l \in Lists(PatternTags, MaxTags)}
        \cup {PatPred(TagPredicate_or(l)) : l \in Lists(PatternTags, MaxTags)}

\* the nesting of And / Or / Not in a predicate
RECURSIVE pred_depth(_)
pred_depth(p) ==
    IF p.kind \notin {"And", "Or", "Not"} THEN 0
    ELSE LET below == {pred_depth(p.preds[i]) : i \in DOMAIN p.preds}
         IN  1 + (IF below = {} THEN 0
                  ELSE CHOOSE d \in below : \A e \in below : e <= d)

StoreUnchanged ==
    UNCHANGED <<backend, is_dir, dir, cur_id, files, tags_map, poisoned, std,
                ret, issued, fresh, expect, pc, local, calls>>

CanNest == pat.kind = "Predicate" /\ pred_depth(pat.pred) < MaxDepth

\* TagPredicate::not(pat)
Pattern_not ==
    /\ backend = "none"
    /\ CanNest
    /\ pat' = PatPred(Pred_Not(pat.pred))
    /\ matched' = None
    /\ UNCHANGED <<cands, raw, conv>>
    /\ StoreUnchanged

\* TagPredicate::and([pat, q]) and TagPredicate::and([q, pat])
Pattern_and(q) ==
    /\ backend = "none"
    /\ CanNest
    /\ pat' \in {PatPred(Pred_And(<<pat.pred, q>>)), PatPred(Pred_And(<<q, pat.pred>>))}
    /\ matched' = None
    /\ UNCHANGED <<cands, raw, conv>>
    /\ StoreUnchanged

\* TagPredicate::or([pat, q]) and TagPredicate::or([q, pat])
Pattern_or(q) ==
    /\ backend = "none"
    /\ CanNest
    /\ pat' \in {PatPred(Pred_Or(<<pat.pred, q>>)), PatPred(Pred_Or(<<q, pat.pred>>))}
    /\ matched' = None
    /\ UNCHANGED <<cands, raw, conv>>
    /\ StoreUnchanged

\* pat.match_tags(cands)
Pattern_match_tags ==
    /\ backend = "none"
    /\ matched' = Some(match_tags(pat, cands))
    /\ UNCHANGED <<pat, cands, raw, conv>>
    /\ StoreUnchanged

\* no backend is open
NoStore ==
    /\ backend = "none"
    /\ is_dir = TRUE
    /\ dir = NoFiles
    /\ cur_id = FirstFileId
    /\ files = <<>>
    /\ tags_map = NoTags
    /\ poisoned = FALSE
    /\ std = TRUE
    /\ ret = RetNone
    /\ issued = <<>>
    /\ fresh = "new"
    /\ expect = NoExpect
    /\ pc = Idle
    /\ local = NoLocal
    /\ calls = 0

InitPattern ==
    /\ NoStore
    /\ pat \in InitPatterns
    /\ cands \in Candidates
    /\ matched = None
    /\ raw = 0
    /\ conv = NoConv

NextPattern ==
    \/ Pattern_not
    \/ \E q \in Operands : Pattern_and(q)
    \/ \E q \in Operands : Pattern_or(q)
    \/ Pattern_match_tags

SpecPattern == InitPattern /\ [][NextPattern]_vars

---------------------------------------------------------------------------
(* DirectoryBackedFs on a directory whose tag artifacts are damaged from   *)
(* outside the program: cut short, or a byte of a string overwritten.      *)

\* the tag lists the calls write
TagLists ==
    {a.tags : a \in AddArgs} \cup {a.tags.v : a \in {e \in EditArgs : e.tags.some}}

\* the artifact of a tag list cut inside a record
Truncations(tags) ==
    LET full == write_tags_bytes(tags)
    IN  {SubSeq(full, 1, n) : n \in 0..(Len(full) - 1)}
            \ {write_tags_bytes(SubSeq(tags, 1, k)) : k \in 0..Len(tags)}

\* the artifact of a tag list with the last byte of its last name made 0xFF,
\* which no UTF-8 string holds
BadUtf8(tags) ==
    LET full == write_tags_bytes(tags)
    IN  IF full = <<>> THEN {} ELSE {[full EXCEPT ![Len(full)] = 255]}

Corruptions(tags) == Truncations(tags) \cup BadUtf8(tags)

\* the tag artifact of id, as write_tags left it, is replaced by damaged bytes
Env_damage_tag(id, tags, bytes) ==
    /\ backend = "dfs"
    /\ is_dir
    /\ tag_path(id) \in DOMAIN dir
    /\ dir[tag_path(id)] = write_tags_bytes(tags)
    /\ bytes \in Corruptions(tags)
    /\ dir' = fs_write(dir, tag_path(id), bytes)
    /\ ret' = RetNone
    /\ UNCHANGED <<backend, is_dir, cur_id, issued, fresh, expect>>
    /\ ImfsUnchanged /\ ThreadsUnchanged /\ ValuesUnchanged

\* every damaged artifact of the tag lists
DamagedBytes == UNION {Corruptions(tags) : tags \in TagLists}

InitDamage == Init /\ backend = "dfs"

NextDamage ==
    \/ \E a \in AddArgs : Dfs_add_file(a.data, a.tags)
    \/ \E id \in DfsIds, tags \in TagLists, bytes \in DamagedBytes :
           Env_damage_tag(id, tags, bytes)
    \/ \E pattern \in Patterns : Dfs_search_tags(pattern)
    \/ \E id \in DfsIds : Dfs_get_info(id)

SpecDamage == InitDamage /\ [][NextDamage]_vars

---------------------------------------------------------------------------
(* DirectoryBackedFs while its backing path stops being a directory (it is *)
(* moved away, or a file takes its place) and becomes the directory again. *)

\* the backing path stops being a directory
Env_dir_gone ==
    /\ backend = "dfs"
    /\ is_dir
    /\ is_dir' = FALSE
    /\ ret' = RetNone
    /\ UNCHANGED <<backend, dir, cur_id, issued, fresh, expect>>
    /\ ImfsUnchanged /\ ThreadsUnchanged /\ ValuesUnchanged

\* the backing path is the directory again, with the contents it had
Env_dir_back ==
    /\ backend = "dfs"
    /\ ~is_dir
    /\ is_dir' = TRUE
    /\ ret' = RetNone
    /\ UNCHANGED <<backend, dir, cur_id, issued, fresh, expect>>
    /\ ImfsUnchanged /\ ThreadsUnchanged /\ ValuesUnchanged

\* the arguments of the calls: those of tests/dfs.rs rw_file, an edit of the
\* data and an edit of the tags, a search for the first tag
DirAddArgs == {a \in AddArgs : a.data # <<>>}

DirEditArgs == {a \in EditArgs : ~(a.data.some /\ a.tags.some)}

InitDir == Init /\ backend = "dfs"

NextDir ==
    \/ \E a \in DirAddArgs : Dfs_add_file(a.data, a.tags)
    \/ \E id \in DfsIds, a \in DirEditArgs : Dfs_edit_file(id, a.data, a.tags)
    \/ \E id \in DfsIds : Dfs_remove_file(id)
    \/ Dfs_search_tags(PatTag(TagA))
    \/ \E id \in DfsIds : Dfs_get_info(id)
    \/ Env_dir_gone
    \/ Env_dir_back

SpecDir == InitDir /\ [][NextDir]_vars

---------------------------------------------------------------------------
(* FileId on its own: the conversions and the range checks on a u64.       *)

FileId_try_from_u64 ==
    /\ backend = "none"
    /\ conv' = [op |-> "FileId::try_from", res |-> FileId_try_from(raw)]
    /\ UNCHANGED <<pat, cands, matched, raw>>
    /\ StoreUnchanged

u64_try_from_FileId ==
    /\ backend = "none"
    /\ conv' = [op |-> "u64::try_from", res |-> u64_try_from(from_u64_unchecked(raw))]
    /\ UNCHANGED <<pat, cands, matched, raw>>
    /\ StoreUnchanged

FileId_is_special ==
    /\ backend = "none"
    /\ conv' = [op |-> "is_special", res |-> Some(is_special(from_u64_unchecked(raw)))]
    /\ UNCHANGED <<pat, cands, matched, raw>>
    /\ StoreUnchanged

FileId_is_file ==
    /\ backend = "none"
    /\ conv' = [op |-> "is_file", res |-> Some(is_file(from_u64_unchecked(raw)))]
    /\ UNCHANGED <<pat, cands, matched, raw>>
    /\ StoreUnchanged

InitFileId ==
    /\ NoStore
    /\ pat = PatList(<<>>)
    /\ cands = <<>>
    /\ matched = None
    /\ raw \in 0..MaxRaw
    /\ conv = NoConv

NextFileId ==
    \/ FileId_try_from_u64
    \/ u64_try_from_FileId
    \/ FileId_is_special
    \/ FileId_is_file

SpecFileId == InitFileId /\ [][NextFileId]_vars

---------------------------------------------------------------------------
(* Properties. *)

\* the live files: added by an add_file that returned Ok, not removed since
Live == DOMAIN expect

\* the ids of a returned Vec<FileId>
IdSet(ids) == {ids[i] : i \in DOMAIN ids}

\* a tag set matches a single-tag pattern when it holds the tag
Matches(pattern, tagset) == pattern.tag \in tagset

\* the counter tbf.dat of directory d stores, 256 when d has no tbf.dat
StoredCounter(d) ==
    IF TbfDat \in DOMAIN d THEN from_le_bytes(SubSeq(d[TbfDat], 1, 8)) ELSE 256

HasArtifact(d, id) == dat_path(id) \in DOMAIN d \/ tag_path(id) \in DOMAIN d

\* C1: in DirectoryBackedFs, when add_file(data, tags) has returned id,
\* get_info(id) succeeds with data() = data and tags() = the distinct tags.
C1_DfsRoundTrip ==
    (backend = "dfs" /\ ret.op = "add_file" /\ ret.ok) =>
        LET info == dfs_get_info(dir, is_dir, ret.id)
        IN  /\ info.ok
            /\ info.data = expect[ret.id].data
            /\ info.tags = expect[ret.id].tags

\* C2: the add_file calls of one DirectoryBackedFs instance that returned Ok
\* returned pairwise different ids, also when they ran concurrently.
C2_DfsUniqueIds ==
    \A i, j \in DOMAIN issued : i # j => issued[i] # issued[j]

\* C3: when the process stopped inside add_file and the directory is opened
\* again, the id the next add_file reads (and will return) has no data and no
\* tag artifact in the directory.
C3_DfsCrashSafeIds ==
    \A t \in Threads :
        (/\ backend = "dfs"
         /\ pc[t] = "write_data"
         /\ fresh = "new"
         /\ \A u \in Threads \ {t} : pc[u] = "idle")
        => ~HasArtifact(dir, local[t].id)

\* C4: the first add_file of a newly opened DirectoryBackedFs returns exactly
\* the counter stored in tbf.dat (256 without a tbf.dat), and that is greater
\* than every id returned before the directory was reopened; a tbf.dat that
\* holds 300 is loaded as 300.
C4_DfsRestartKeepsCounter ==
    [][(backend = "dfs" /\ fresh = "new" /\ issued' # issued) =>
           /\ ret'.op = "add_file"
           /\ ret'.id = StoredCounter(dir)
           /\ \A i \in DOMAIN issued : issued[i] < ret'.id
           /\ SavedState_from_path(SavedState_save(dir, 300)) = Some(300)]_vars

\* C4 happens: the first add_file after a reopening returned 257, the value
\* the earlier add_file left in tbf.dat.
C4_Witness ==
    /\ backend = "dfs"
    /\ fresh = "first"
    /\ ret.op = "add_file"
    /\ issued = <<256, 257>>

\* C5: in DirectoryBackedFs, search_tags(p) returns exactly the ids of the
\* live files whose stored tag set matches p.
C5_DfsSearch ==
    backend = "dfs" =>
        \A pattern \in Patterns :
            \A found \in dfs_search_tags(dir, is_dir, pattern) :
                /\ found.ok
                /\ IdSet(found.ids) =
                       {id \in Live : Matches(pattern, expect[id].tags)}

C7_ImfsRoundTrip ==
    (backend = "imfs" /\ ret.op = "add_file" /\ ret.ok) =>
        LET info == imfs_get_info(files, tags_map, std, poisoned, ret.id)
        IN  /\ info.ok
            /\ info.data = expect[ret.id].data
            /\ info.tags = expect[ret.id].tags

\* C8: in InMemoryFs, after any add_file, edit_file and remove_file calls,
\* search_tags(p) returns exactly the ids of the live files whose current tag
\* set matches p, each id once.
C8_ImfsSearch ==
    backend = "imfs" =>
        \A pattern \in Patterns :
            LET found == imfs_search_tags(tags_map, pattern)
            IN  /\ found.ok
                /\ IdSet(found.ids) =
                       {id \in Live : Matches(pattern, expect[id].tags)}
                /\ \A i, j \in DOMAIN found.ids :
                       i # j => found.ids[i] # found.ids[j]

\* C8 happens: of two live files, tagged {a, g:b} and {a}, a search for g:b
\* returned the first alone.
C8_Witness ==
    /\ backend = "imfs"
    /\ ret.op = "search_tags"
    /\ ret.ids = <<256>>
    /\ Live = {256, 257}
    /\ expect[256].tags = {TagA, TagGB}
    /\ expect[257].tags = {TagA}

\* C9: in DirectoryBackedFs, edit_file on an id that is not live fails with
\* FileNotFound and creates no data and no tag artifact for the id.
C9_DfsEditNotLive ==
    (backend = "dfs" /\ ret.op = "edit_file" /\ ret.id \notin Live) =>
        /\ ~ret.ok
        /\ generic_kind(ret.err) = "FileNotFound"
        /\ ~HasArtifact(dir, ret.id)

\* C10: in DirectoryBackedFs, get_info on an id that is not live fails with
\* the FileNotFound error (generic kind FileNotFound).
C10_DfsGetInfoNotLive ==
    (backend = "dfs" /\ ret.op = "get_info" /\ ret.id \notin Live) =>
        /\ ~ret.ok
        /\ ret.err = "FileNotFound"
        /\ generic_kind(ret.err) = "FileNotFound"

\* C11: in DirectoryBackedFs, remove_file(id) on an existing directory returns
\* Ok whether or not artifacts of id exist; after it neither the data nor the
\* tag artifact of id exists; every other file of the directory (tbf.dat
\* included) and the counter are as before; and a remove_file of an id without
\* artifacts, such as a second remove_file(id), changes nothing.
C11_DfsRemoveIdempotent ==
    [][(backend = "dfs" /\ is_dir /\ ret'.op = "remove_file") =>
           /\ ret'.ok
           /\ ~HasArtifact(dir', ret'.id)
           /\ cur_id' = cur_id
           /\ DOMAIN dir' = DOMAIN dir \ {dat_path(ret'.id), tag_path(ret'.id)}
           /\ \A n \in DOMAIN dir' : dir'[n] = dir[n]
           /\ (~HasArtifact(dir, ret'.id) => dir' = dir)
           /\ dfs_remove_file_dir(dir', ret'.id) = dir']_vars

\* C11 happens: remove_file(256) returned Ok while the artifacts of 257 and
\* tbf.dat are in the directory.
C11_Witness ==
    /\ backend = "dfs"
    /\ ret.op = "remove_file" /\ ret.ok /\ ret.id = 256
    /\ ~HasArtifact(dir, 256)
    /\ dat_path(257) \in DOMAIN dir /\ tag_path(257) \in DOMAIN dir
    /\ StoredCounter(dir) = 258 /\ cur_id = 258

\* C12: in InMemoryFs, remove_file on a live id returns Ok and makes the id
\* non-live, so that get_info, edit_file and remove_file on it then fail with
\* FileNotFound; remove_file on an id that is not live fails with FileNotFound
\* and changes neither the payloads nor the tag map.
C12_ImfsRemove ==
    [][(backend = "imfs" /\ ret'.op = "remove_file") =>
           IF ret'.id \in Live
           THEN /\ ret'.ok
                /\ ~assert_file_exists(tags_map', ret'.id)
                /\ imfs_get_info(files', tags_map', std, poisoned', ret'.id).err
                       = "FileNotFound"
           ELSE /\ ~ret'.ok
                /\ ret'.err = "FileNotFound"
                /\ files' = files /\ tags_map' = tags_map]_vars

\* what get_info(id) returns in the current state of the instance
InfoNow(id) ==
    IF backend = "dfs" THEN dfs_get_info(dir, is_dir, id)
    ELSE imfs_get_info(files, tags_map, std, poisoned, id)

\* C13: in both backends, edit_file on a live id returns Ok and changes only
\* what it is given: get_info(id) then returns the supplied data, or the old
\* data when none is supplied, and the set of the supplied tags, or the old
\* tags when none are supplied; what get_info returns for every other live id
\* and the next id to allocate are as before.
C13_EditFrame ==
    [][\A a \in EditArgs : \A id \in Live :
          (/\ is_dir
           /\ \/ Dfs_edit_file(id, a.data, a.tags)
              \/ Imfs_edit_file(id, a.data, a.tags)) =>
              /\ ret'.ok
              /\ InfoNow(id)'.ok
              /\ InfoNow(id)'.data =
                     IF a.data.some THEN a.data.v ELSE InfoNow(id).data
              /\ InfoNow(id)'.tags =
                     IF a.tags.some THEN collect_set(a.tags.v) ELSE InfoNow(id).tags
              /\ \A o \in Live \ {id} : InfoNow(o)' = InfoNow(o)
              /\ cur_id' = cur_id
              /\ Len(files') = Len(files)]_vars

\* the candidate tags as a set
CandSet(tags) == {tags[i] : i \in DOMAIN tags}

\* the reference meaning of a predicate on a set of candidate tags
RECURSIVE RefMatch(_, _)
RefMatch(p, S) ==
    CASE p.kind = "And" -> \A i \in DOMAIN p.preds : RefMatch(p.preds[i], S)
      [] p.kind = "Or" -> \E i \in DOMAIN p.preds : RefMatch(p.preds[i], S)
      [] p.kind = "Not" -> ~RefMatch(p.preds[1], S)
      [] p.kind = "Group" -> \E t \in S : t.group = p.group
      [] p.kind = "Name" -> \E t \in S : t.name = p.name
      [] p.kind = "Tag" -> \E t \in S : t.group = p.group /\ t.name = p.name

\* C14: what TagPredicate::match_tags returns equals the reference meaning of
\* the predicate on the set of the candidates (And: every sub-predicate on the
\* whole set, Or: some sub-predicate, Not: not the inner one, Group / Name /
\* Tag: some candidate with that group / that name in any group / equal to
\* it), and it is the same for every other order or duplication of the
\* candidates.
C14_PredicateSemantics ==
    (pat.kind = "Predicate" /\ matched.some) =>
        /\ matched.v = RefMatch(pat.pred, CandSet(cands))
        /\ \A other \in Candidates :
               CandSet(other) = CandSet(cands) =>
                   TagPredicate_match_tags(pat.pred, other) = matched.v

\* C14 happens: And([Not(Name(b)), Name(a)]) was matched against the
\* candidates [g:a, g:a] and returned true.
C14_Witness ==
    /\ pat = PatPred(Pred_And(<<Pred_Not(Pred_Name(Str_b)), Pred_Name(Str_a)>>))
    /\ cands = <<TagGA, TagGA>>
    /\ matched = Some(TRUE)

\* C15: for every predicate p and every candidate list, the empty one
\* included, exactly one of p.match_tags and Not(p).match_tags is true.
C15_NotComplement ==
    (pat.kind = "Predicate" /\ matched.some) =>
        matched.v # TagPredicate_match_tags(Pred_Not(pat.pred), cands)

\* C15 happens: Or([Not(Group(Default)), Name(a)]) was matched against no
\* candidates and returned true.
C15_Witness ==
    /\ pat = PatPred(Pred_Or(<<Pred_Not(Pred_Group(Group_Default)), Pred_Name(Str_a)>>))
    /\ cands = <<>>
    /\ matched = Some(TRUE)

\* C16: And of an empty list matches every candidate list and Or of an empty
\* list matches none, the empty candidate list included.
C16_EmptyAndOr ==
    matched.some =>
        /\ pat = PatPred(Pred_And(<<>>)) => matched.v = TRUE
        /\ pat = PatPred(Pred_Or(<<>>)) => matched.v = FALSE

\* C16 happens: And([]) was matched against no candidates and returned true.
C16_Witness ==
    /\ pat = PatPred(Pred_And(<<>>))
    /\ cands = <<>>
    /\ matched = Some(TRUE)

\* C17: a bare Tag pattern matches iff the candidates hold a tag equal to it;
\* a tag list pattern matches iff every listed tag is among the candidates,
\* which is what TagPredicate::and of the same tags returns; an empty list
\* matches every candidate list.
C17_TagAndListPatterns ==
    matched.some =>
        /\ pat.kind = "Tag" => matched.v = (pat.tag \in CandSet(cands))
        /\ pat.kind = "List" =>
               /\ matched.v = (\A k \in DOMAIN pat.tags : pat.tags[k] \in CandSet(cands))
               /\ matched.v = TagPredicate_match_tags(TagPredicate_and(pat.tags), cands)
               /\ pat.tags = <<>> => matched.v = TRUE

\* C17 happens: the list [a, g:b] was matched against the candidates
\* [g:b, a] and returned true.
C17_Witness ==
    /\ pat = PatList(<<TagA, TagGB>>)
    /\ cands = <<TagGB, TagA>>
    /\ matched = Some(TRUE)

\* a tag artifact cut or overwritten inside a record
Damaged(bytes) == \E tags \in TagLists : bytes \in Corruptions(tags)

\* C18: in DirectoryBackedFs, get_info of an id whose tag artifact is damaged
\* inside a record returns an error, and so does search_tags while a live
\* file has such an artifact; neither returns Ok with a shorter tag list.
C18_DamagedTagArtifact ==
    [][/\ (/\ backend = "dfs"
           /\ ret'.op = "get_info"
           /\ HasArtifact(dir, ret'.id)
           /\ tag_path(ret'.id) \in DOMAIN dir
           /\ Damaged(dir[tag_path(ret'.id)])) => ~ret'.ok
       /\ (/\ backend = "dfs"
           /\ ret'.op = "search_tags"
           /\ \E id \in Live : /\ tag_path(id) \in DOMAIN dir
                               /\ Damaged(dir[tag_path(id)])) => ~ret'.ok]_vars

\* the calls of the FileSystem trait
FsOps == {"add_file", "edit_file", "remove_file", "search_tags", "get_info"}

\* C19: in DirectoryBackedFs, a call made while the backing path is not a
\* directory returns an I/O error (generic kind Source) and changes neither
\* the counter nor the directory; a call made while the path is a directory,
\* also after calls that failed for this reason, is not refused: add_file,
\* edit_file, remove_file and search_tags return Ok, and get_info returns Ok
\* for an id whose two artifacts are there.
C19_DfsNotADirectory ==
    [][(backend = "dfs" /\ ret'.op \in FsOps) =>
           IF ~is_dir
           THEN /\ ~ret'.ok
                /\ ret'.err = "IoError"
                /\ generic_kind(ret'.err) = "Source"
                /\ dir' = dir
                /\ cur_id' = cur_id
           ELSE \/ ret'.ok
                \/ /\ ret'.op = "get_info"
                   /\ ~(dat_path(ret'.id) \in DOMAIN dir /\ tag_path(ret'.id) \in DOMAIN dir)]_vars

\* C19 happens: after add_file had returned 256, add_file was called while
\* the path was not a directory and returned an error.
C19_Witness ==
    /\ backend = "dfs"
    /\ ~is_dir
    /\ ret.op = "add_file" /\ ~ret.ok
    /\ issued = <<256>>
    /\ cur_id = 257

\* C20: FileId::try_from(v) fails exactly when v <= 255 and otherwise gives
\* the id whose raw value is v; u64::try_from(id) fails exactly when id is
\* special and otherwise gives the raw value; is_special is value <= 255,
\* is_file is value >= 256, and exactly one of the two holds.
C20_FileIdConversions ==
    /\ conv.op = "FileId::try_from" =>
           /\ ~conv.res.some <=> raw <= 255
           /\ conv.res.some => into_u64_unchecked(conv.res.v) = raw
    /\ conv.op = "u64::try_from" =>
           /\ ~conv.res.some <=> is_special(from_u64_unchecked(raw))
           /\ conv.res.some => conv.res.v = raw
    /\ conv.op = "is_special" => (conv.res.v <=> raw <= 255)
    /\ conv.op = "is_file" => (conv.res.v <=> raw >= 256)
    /\ is_special(from_u64_unchecked(raw)) # is_file(from_u64_unchecked(raw))

\* C20 happens: FileId::try_from(256) returned the id 256, the first value
\* outside the reserved range.
C20_Witness ==
    /\ conv.op = "FileId::try_from"
    /\ raw = 256
    /\ conv.res = Some(256)

---------------------------------------------------------------------------
(* The tag codec alone: a tag list is encoded as write_tags encodes it and *)
(* the bytes are decoded as TagIter decodes them.                          *)

\* the tags given to the codec: default and custom groups, empty and
\* non-empty names
CodecTags ==
    PatternTags \cup {Tag_named(<<>>), Tag_named(Str_b), Tag_new(Group_custom(<<>>), <<>>)}

InitCodec ==
    /\ NoStore
    /\ pat = PatList(<<>>)
    /\ cands \in Lists(CodecTags, MaxTags)
    /\ matched = None
    /\ raw = 0
    /\ conv = NoConv

\* write_tags lines 166-198: the bytes written for the tag list
Codec_write_tags ==
    /\ backend = "none"
    /\ conv.op = "none"
    /\ conv' = [op |-> "write_tags", res |-> Some(write_tags_bytes(cands))]
    /\ UNCHANGED <<pat, cands, matched, raw>>
    /\ StoreUnchanged

\* TagIter lines 109-125 run to its end on the bytes written
Codec_TagIter ==
    /\ backend = "none"
    /\ conv.op = "write_tags"
    /\ conv' = [op |-> "TagIter", res |-> Some(TagIter_all(conv.res.v))]
    /\ UNCHANGED <<pat, cands, matched, raw>>
    /\ StoreUnchanged

NextCodec ==
    \/ Codec_write_tags
    \/ Codec_TagIter

SpecCodec == InitCodec /\ [][NextCodec]_vars

\* C21: decoding with TagIter the bytes write_tags produces for a tag list
\* yields the same tags in the same order.
C21_CodecRoundTrip ==
    (backend = "none" /\ conv.op = "TagIter") => conv.res.v = cands

---------------------------------------------------------------------------
(* The naming of the tag artifact and its parsing by search_tags: the name *)
(* of the artifact of an id is built as write_tags builds it, and the      *)
(* entry of that name is parsed as the loop of search_tags parses it.      *)

InitNaming ==
    /\ NoStore
    /\ pat = PatList(<<>>)
    /\ cands = <<>>
    /\ matched = None
    /\ raw \in FirstFileId..MaxRaw
    /\ conv = NoConv

\* write_tags line 174: self.file_name(id).with_extension(".tag")
Naming_tag_path ==
    /\ backend = "none"
    /\ conv.op = "none"
    /\ conv' = [op |-> "tag_path", res |-> Some(tag_path(raw))]
    /\ UNCHANGED <<pat, cands, matched, raw>>
    /\ StoreUnchanged

\* search_tags lines 263-276 on the entry of that name: the id it goes on
\* with, None when the entry is skipped
Naming_search_entry ==
    /\ backend = "none"
    /\ conv.op = "tag_path"
    /\ LET name == conv.res.v
           d == fs_write(NoFiles, name, <<>>)
       IN  conv' = [op |-> "search_tags",
                    res |-> IF name \in search_entries(d)
                            THEN Some(from_u64_unchecked(search_id(name)))
                            ELSE None]
    /\ UNCHANGED <<pat, cands, matched, raw>>
    /\ StoreUnchanged

NextNaming ==
    \/ Naming_tag_path
    \/ Naming_search_entry

SpecNaming == InitNaming /\ [][NextNaming]_vars

\* C22: for an id of 256 or more, the tag artifact is named by the 16
\* upper-case hexadecimal digits of the id followed by ".tag", search_tags
\* recognises that entry, and the id it parses from the name is the id.
C22_NamingAgreesWithSearch ==
    /\ (backend = "none" /\ conv.op = "tag_path") =>
            conv.res.v = format_hex(raw, 16) \o <<".", "t", "a", "g">>
    /\ (backend = "none" /\ conv.op = "search_tags") =>
            conv.res = Some(raw)

---------------------------------------------------------------------------
(* DirectoryBackedFs::add_file called from several threads with no I/O     *)
(* failure and no stop of the process.  The instance is opened on an empty *)
(* directory or on one whose tbf.dat holds a counter; raw keeps the        *)
(* counter read at the opening.                                            *)

InitAdds ==
    /\ backend = "dfs"
    /\ is_dir = TRUE
    /\ dir \in {NoFiles, SavedState_save(NoFiles, FirstFileId + 1)}
    /\ cur_id = SavedState_from_path(dir).v
    /\ files = <<>>
    /\ tags_map = NoTags
    /\ poisoned = FALSE
    /\ std = TRUE
    /\ ret = RetNone
    /\ issued = <<>>
    /\ fresh = "new"
    /\ expect = NoExpect
    /\ pc = Idle
    /\ local = NoLocal
    /\ calls = 0
    /\ pat = PatList(<<>>)
    /\ cands = <<>>
    /\ matched = None
    /\ raw = cur_id
    /\ conv = NoConv

NextAdds ==
    \/ \E t \in Threads, a \in AddArgs : add_file_read_id(t, a.data, a.tags)
    \/ \E t \in Threads : add_file_write_data(t)
    \/ \E t \in Threads : add_file_write_tags(t)
    \/ \E t \in Threads : add_file_increment(t)
    \/ \E t \in Threads : add_file_save_open(t)
    \/ \E t \in Threads : add_file_save_write(t)

SpecAdds == InitAdds /\ [][NextAdds]_vars

\* C23: in DirectoryBackedFs without I/O failures, whenever no add_file is
\* in progress, the in-memory counter is the counter read at the opening plus
\* the number of add_file calls that returned Ok, and, once an add_file has
\* returned Ok, the 8-byte little-endian value of tbf.dat is that counter;
\* also when the calls overlapped.
C23_CounterAccounting ==
    (backend = "dfs" /\ pc = Idle) =>
        /\ cur_id = raw + Len(issued)
        /\ issued # <<>> =>
              /\ TbfDat \in DOMAIN dir
              /\ Len(dir[TbfDat]) = 8
              /\ from_le_bytes(dir[TbfDat]) = cur_id

\* two overlapped add_file calls have returned the same id, from an opening
\* on a stored counter, and no call is in progress
C23_Witness ==
    /\ backend = "dfs"
    /\ pc = Idle
    /\ raw = FirstFileId + 1
    /\ Len(issued) = 2
    /\ issued[1] = issued[2]
    /\ cur_id = raw + 2
    /\ StoredCounter(dir) = cur_id

\* C24: in DirectoryBackedFs, after any sequence of add_file, edit_file and
\* remove_file calls that all returned Ok, every id has both its data artifact
\* and its tag artifact in the directory, or neither.
C24_ArtifactsPaired ==
    (backend = "dfs" /\ ret.ok) =>
        \A id \in DfsIds : dat_path(id) \in DOMAIN dir <=> tag_path(id) \in DOMAIN dir

---------------------------------------------------------------------------
(* InMemoryFs called from several threads, lock by lock.  A call starts,   *)
(* then takes one step per lock it acquires; a step waits until the lock   *)
(* can be granted.  A guard that is a temporary of a statement is released *)
(* in the step that took it.  Two guards outlive their step: get_info      *)
(* keeps the read guard of `files` while it takes `tags` (both are         *)
(* temporaries of the one expression Ok(FileInfo { .. })), and remove_file *)
(* keeps the write guard `files` while it takes `tags`.  A panic unwinds   *)
(* the call, releases its guards and, with std, poisons a lock whose write *)
(* guard it held.                                                          *)

\* a removal that takes `tags` before `files`
remove_file_locks_tags_first(id) == <<"tags", "files">>

\* remove_file lines 148-151: the locks it takes, in the order of its statements
remove_file_locks(id) == <<"files", "tags">>

\* the guards a thread holds between two of its steps
imfs_held(t) ==
    IF pc[t] = "get_info_tags" THEN {<<"files", "r">>}
    ELSE IF pc[t] = "remove_file_second"
         THEN {<<remove_file_locks(local[t].id)[1], "w">>}
         ELSE {}

\* RwLock::read is granted: no other thread holds the write guard
can_read(t, lock) == \A u \in Threads \ {t} : <<lock, "w">> \notin imfs_held(u)

\* RwLock::write is granted: no other thread holds a guard
can_write(t, lock) ==
    \A u \in Threads \ {t} : imfs_held(u) \cap {<<lock, "r">>, <<lock, "w">>} = {}

\* the call of thread t ends with r
Returns(t, r) ==
    /\ ret' = r
    /\ pc' = [pc EXCEPT ![t] = "idle"]
    /\ local' = [local EXCEPT ![t] = NoLocal[t]]

\* thread t goes on to its next lock
Goes(t, label) ==
    /\ pc' = [pc EXCEPT ![t] = label]
    /\ UNCHANGED ret

ConcImfsUnchanged ==
    /\ UNCHANGED <<backend, std, fresh>>
    /\ DfsUnchanged
    /\ UNCHANGED <<pat, cands, matched, raw, conv>>

\* a thread enters a method with its arguments
Conc_call(t, label, id, data, tags) ==
    /\ backend = "imfs"
    /\ pc[t] = "idle"
    /\ calls < MaxCalls
    /\ calls' = calls + 1
    /\ pc' = [pc EXCEPT ![t] = label]
    /\ local' = [local EXCEPT ![t] = [id |-> id, data |-> data, tags |-> tags]]
    /\ UNCHANGED <<files, tags_map, poisoned, ret, issued, expect>>
    /\ ConcImfsUnchanged

\* the calls of add_file stop when `files` is to reach MaxAdds payloads
CanAdd == Len(files) + Cardinality({u \in Threads : pc[u] = "add_file_files"}) < MaxAdds

\* add_file lines 109-114: push under the write guard of `files`
Conc_add_file_files(t) ==
    /\ pc[t] = "add_file_files"
    /\ can_write(t, "files")
    /\ IF files_lock_fails(std, poisoned)
       THEN /\ Returns(t, RetErr("add_file", "Poisoned", 0))
            /\ UNCHANGED files
       ELSE /\ files' = Append(files, local[t].data)
            /\ local' = [local EXCEPT ![t].id = imfs_new_id(Len(files) + 1)]
            /\ Goes(t, "add_file_tags")
    /\ UNCHANGED <<tags_map, poisoned, issued, expect, calls>>
    /\ ConcImfsUnchanged

\* add_file lines 116-119: insert under the write guard of `tags`
Conc_add_file_tags(t) ==
    /\ pc[t] = "add_file_tags"
    /\ can_write(t, "tags")
    /\ tags_map' = map_insert(tags_map, local[t].id, collect_set(local[t].tags))
    /\ issued' = Append(issued, local[t].id)
    /\ expect' = ExpectPut(expect, local[t].id, local[t].data, collect_set(local[t].tags))
    /\ Returns(t, RetOk("add_file", local[t].id))
    /\ UNCHANGED <<files, poisoned, calls>>
    /\ ConcImfsUnchanged

\* assert_file_exists lines 88-93 as the first statement of op: the read
\* guard of `tags` is released at the end of the statement
Conc_assert_file_exists(t, op, next) ==
    /\ can_read(t, "tags")
    /\ IF ~assert_file_exists(tags_map, local[t].id)
       THEN Returns(t, RetErr(op, "FileNotFound", local[t].id))
       ELSE IF next = "idle"
       THEN Returns(t, RetOk(op, local[t].id))
       ELSE Goes(t, next) /\ UNCHANGED local
    /\ UNCHANGED <<files, tags_map, poisoned, issued, expect, calls>>
    /\ ConcImfsUnchanged

\* edit_file line 132
Conc_edit_file_assert(t) ==
    /\ pc[t] = "edit_file_assert"
    /\ Conc_assert_file_exists(t, "edit_file",
            IF local[t].data.some THEN "edit_file_data"
            ELSE IF local[t].tags.some THEN "edit_file_tags" ELSE "idle")

\* edit_file lines 134-137: the payload under the write guard of `files`
Conc_edit_file_data(t) ==
    /\ pc[t] = "edit_file_data"
    /\ can_write(t, "files")
    /\ LET id == local[t].id
       IN  IF files_lock_fails(std, poisoned)
           THEN /\ Returns(t, RetErr("edit_file", "Poisoned", id))
                /\ UNCHANGED <<files, poisoned, expect>>
           ELSE IF imfs_index(id) > Len(files)
           THEN /\ Returns(t, RetErr("edit_file", "panic", id))
                /\ poisoned' = std
                /\ UNCHANGED <<files, expect>>
           ELSE /\ files' = [files EXCEPT ![imfs_index(id)] = local[t].data.v]
                /\ UNCHANGED poisoned
                /\ IF local[t].tags.some
                   THEN Goes(t, "edit_file_tags") /\ UNCHANGED <<local, expect>>
                   ELSE /\ Returns(t, RetOk("edit_file", id))
                        /\ expect' = ExpectEdit(expect, id, local[t].data, local[t].tags)
    /\ UNCHANGED <<tags_map, issued, calls>>
    /\ ConcImfsUnchanged

\* edit_file lines 138-143: the tags under the write guard of `tags`
Conc_edit_file_tags(t) ==
    /\ pc[t] = "edit_file_tags"
    /\ can_write(t, "tags")
    /\ tags_map' = map_insert(tags_map, local[t].id, collect_set(local[t].tags.v))
    /\ expect' = ExpectEdit(expect, local[t].id, local[t].data, local[t].tags)
    /\ Returns(t, RetOk("edit_file", local[t].id))
    /\ UNCHANGED <<files, poisoned, issued, calls>>
    /\ ConcImfsUnchanged

\* remove_file line 146
Conc_remove_file_assert(t) ==
    /\ pc[t] = "remove_file_assert"
    /\ Conc_assert_file_exists(t, "remove_file", "remove_file_first")

\* remove_file: the statements on one lock (lines 148-149 on `files`, 150-151
\* on `tags`); after the last one the call returns Ok
remove_file_on(t, lock, last) ==
    LET id == local[t].id
    IN  IF lock = "files" /\ files_lock_fails(std, poisoned)
        THEN /\ Returns(t, RetErr("remove_file", "Poisoned", id))
             /\ UNCHANGED <<files, tags_map, poisoned, expect>>
        ELSE IF lock = "files" /\ imfs_index(id) > Len(files)
        THEN /\ Returns(t, RetErr("remove_file", "panic", id))
             /\ poisoned' = std
             /\ UNCHANGED <<files, tags_map, expect>>
        ELSE /\ files' = IF lock = "files"
                         THEN [files EXCEPT ![imfs_index(id)] = <<>>] ELSE files
             /\ tags_map' = IF lock = "tags" THEN map_remove(tags_map, id) ELSE tags_map
             /\ UNCHANGED poisoned
             /\ IF last
                THEN /\ Returns(t, RetOk("remove_file", id))
                     /\ expect' = ExpectDel(expect, id)
                ELSE Goes(t, "remove_file_second") /\ UNCHANGED <<local, expect>>

Conc_remove_file_first(t) ==
    /\ pc[t] = "remove_file_first"
    /\ can_write(t, remove_file_locks(local[t].id)[1])
    /\ remove_file_on(t, remove_file_locks(local[t].id)[1], FALSE)
    /\ UNCHANGED <<issued, calls>>
    /\ ConcImfsUnchanged

Conc_remove_file_second(t) ==
    /\ pc[t] = "remove_file_second"
    /\ can_write(t, remove_file_locks(local[t].id)[2])
    /\ remove_file_on(t, remove_file_locks(local[t].id)[2], TRUE)
    /\ UNCHANGED <<issued, calls>>
    /\ ConcImfsUnchanged

\* search_tags lines 155-166: the loop under the read guard of `tags`
Conc_search_tags(t, pattern) ==
    /\ pc[t] = "search_tags"
    /\ can_read(t, "tags")
    /\ Returns(t, imfs_search_tags(tags_map, pattern))
    /\ UNCHANGED <<files, tags_map, poisoned, issued, expect, calls>>
    /\ ConcImfsUnchanged

\* get_info line 169
Conc_get_info_assert(t) ==
    /\ pc[t] = "get_info_assert"
    /\ Conc_assert_file_exists(t, "get_info", "get_info_files")

\* get_info line 173: the payload under the read guard of `files`, which is kept
Conc_get_info_files(t) ==
    /\ pc[t] = "get_info_files"
    /\ can_read(t, "files")
    /\ LET id == local[t].id
       IN  IF files_lock_fails(std, poisoned)
           THEN Returns(t, RetErr("get_info", "Poisoned", id))
           ELSE IF imfs_index(id) > Len(files)
           THEN Returns(t, RetErr("get_info", "panic", id))
           ELSE /\ local' = [local EXCEPT ![t].data = files[imfs_index(id)]]
                /\ Goes(t, "get_info_tags")
    /\ UNCHANGED <<files, tags_map, poisoned, issued, expect, calls>>
    /\ ConcImfsUnchanged

\* get_info line 174: the tags under the read guard of `tags`; get(&id).unwrap()
\* panics when the id is not in the map
Conc_get_info_tags(t) ==
    /\ pc[t] = "get_info_tags"
    /\ can_read(t, "tags")
    /\ LET id == local[t].id
       IN  IF ~assert_file_exists(tags_map, id)
           THEN Returns(t, RetErr("get_info", "panic", id))
           ELSE Returns(t, RetInfo("get_info", id, local[t].data, tags_map[id]))
    /\ UNCHANGED <<files, tags_map, poisoned, issued, expect, calls>>
    /\ ConcImfsUnchanged

\* the steps of a call that has started
Conc_step(t) ==
    \/ Conc_add_file_files(t)
    \/ Conc_add_file_tags(t)
    \/ Conc_edit_file_assert(t)
    \/ Conc_edit_file_data(t)
    \/ Conc_edit_file_tags(t)
    \/ Conc_remove_file_assert(t)
    \/ Conc_remove_file_first(t)
    \/ Conc_remove_file_second(t)
    \/ \E pattern \in Patterns : Conc_search_tags(t, pattern)
    \/ Conc_get_info_assert(t)
    \/ Conc_get_info_files(t)
    \/ Conc_get_info_tags(t)

InitImfsConc == Init /\ backend = "imfs"

\* the arguments of the concurrent add_file calls: those of tests/dfs.rs rw_file
\* (shortened payload)
ConcAddArgs == {[data |-> <<0, 1>>, tags |-> <<TagA, TagGB>>]}

NextImfsConc ==
    \/ \E t \in Threads, a \in ConcAddArgs :
            CanAdd /\ Conc_call(t, "add_file_files", 0, a.data, a.tags)
    \/ \E t \in Threads, id \in ImfsIds, a \in EditArgs :
            Conc_call(t, "edit_file_assert", id, a.data, a.tags)
    \/ \E t \in Threads, id \in ImfsIds :
            Conc_call(t, "remove_file_assert", id, <<>>, <<>>)
    \/ \E t \in Threads : Conc_call(t, "search_tags", 0, <<>>, <<>>)
    \/ \E t \in Threads, id \in ImfsIds :
            Conc_call(t, "get_info_assert", id, <<>>, <<>>)
    \/ \E t \in Threads : Conc_add_file_files(t)
    \/ \E t \in Threads : Conc_add_file_tags(t)
    \/ \E t \in Threads : Conc_edit_file_assert(t)
    \/ \E t \in Threads : Conc_edit_file_data(t)
    \/ \E t \in Threads : Conc_edit_file_tags(t)
    \/ \E t \in Threads : Conc_remove_file_assert(t)
    \/ \E t \in Threads : Conc_remove_file_first(t)
    \/ \E t \in Threads : Conc_remove_file_second(t)
    \/ \E t \in Threads, pattern \in Patterns : Conc_search_tags(t, pattern)
    \/ \E t \in Threads : Conc_get_info_assert(t)
    \/ \E t \in Threads : Conc_get_info_files(t)
    \/ \E t \in Threads : Conc_get_info_tags(t)

SpecImfsConc == InitImfsConc /\ [][NextImfsConc]_vars

\* every thread that can take a step of its call eventually takes one: the
\* scheduler runs a thread that is not blocked, and a lock nobody holds is
\* granted to the thread that asks for it
FairImfsConc == SpecImfsConc /\ \A t \in Threads : WF_vars(Conc_step(t))

\* the get_info of thread t, past its assert_file_exists, ends in this step
GetInfoEnds(t) == pc[t] \in {"get_info_files", "get_info_tags"} /\ pc'[t] = "idle"

\* a remove_file of the id thread t asks for is past its assert_file_exists in
\* another thread, or was the last call to return, with Ok
RemoveOverlaps(t) ==
    \/ \E u \in Threads \ {t} :
            /\ pc[u] \in {"remove_file_first", "remove_file_second"}
            /\ local[u].id = local[t].id
    \/ ret.op = "remove_file" /\ ret.ok /\ ret.id = local[t].id

\* C25: in InMemoryFs, a get_info(id) on a live id that runs concurrently with
\* remove_file(id) either returns the file as it is stored before the removal
\* (payload and tags of one and the same state), or fails with FileNotFound;
\* it never panics.  (Stated for an id whose slot of `files` exists, so that
\* the index of line 173 is not what fails.)
C25_GetInfoDuringRemove ==
    [][\A t \in Threads :
          (/\ backend = "imfs"
           /\ GetInfoEnds(t) /\ RemoveOverlaps(t)
           /\ imfs_index(local[t].id) <= Len(files)) =>
              \/ ret' = RetErr("get_info", "FileNotFound", local[t].id)
              \/ /\ ret'.ok
                 /\ ret' = imfs_get_info(files, tags_map, std, poisoned, local[t].id)]_vars

\* C26: in InMemoryFs, once remove_file(id) has returned Ok the id is not live
\* again, whatever edit_file(id, ..) ran concurrently with the removal: the
\* tag map has no entry for an id that add_file returned and remove_file
\* removed, so that neither search_tags nor get_info sees it.
C26_RemovedStaysRemoved ==
    backend = "imfs" =>
        \A id \in Issued \ Live : ~assert_file_exists(tags_map, id)

\* a thread is inside a call
InCall(t) == pc[t] # "idle"

\* C27: InMemoryFs is deadlock-free.  Between two of its steps a thread holds
\* no guard of `tags`, so a thread that holds `files` and asks for `tags` is
\* never waited for by the holder of `tags`; whenever a call is in progress
\* some thread in a call can take its next step; and, the threads being
\* scheduled fairly, every call that has started ends (it returns, or it
\* unwinds from a panic and releases its guards).
C27_DeadlockFree ==
    /\ [](backend = "imfs" =>
            \A t \in Threads : \A h \in imfs_held(t) : h[1] = "files")
    /\ [](backend = "imfs" =>
            ((\E t \in Threads : InCall(t)) =>
                \E u \in Threads : InCall(u) /\ ENABLED Conc_step(u)))
    /\ \A t \in Threads : InCall(t) ~> ~InCall(t)

\* C27 happens: a get_info holds the read guard of `files` and is about to
\* take `tags`, while a remove_file of another thread waits for the write
\* guard of `files`.
C27_Witness ==
    /\ backend = "imfs"
    /\ \E t \in Threads, u \in Threads :
          /\ pc[t] = "get_info_tags"
          /\ pc[u] = "remove_file_first"
          /\ ~can_write(u, "files")

====
